---- MODULE Spec2Model ----
(***************************************************************************)
(* A model of the prefixed_uuids Registry (src/main.go): the prefix/entity *)
(* tables, the separator, the composite ("multi") definitions, and the     *)
(* Serialize / Deserialize / SerializeMulti / DeserializeMulti algorithms. *)
(*                                                                         *)
(* Go strings are sequences of one-character strings, byte slices are      *)
(* sequences of 0..255, Go maps are functions with a finite domain, and an *)
(* error is the sentinel that errors.Is reports for it ("nil" for none).   *)
(***************************************************************************)
EXTENDS Integers, Sequences, FiniteSets, TLC

VARIABLES reg, call

vars == <<reg, call>>

(***************************************************************************)
(* Bounds of the model.                                                    *)
(***************************************************************************)
\* Longest list of PrefixInfo handed to NewRegistry.
MaxPrefixes == 2

(***************************************************************************)
(* Errors (src/main.go 15-25) and the messages of the configuration errors.*)
(***************************************************************************)
NoErr == "nil"
ErrEntityMismatch == "entity mismatch"
ErrInvalidPrefixedUUIDFormat == "invalid prefixed uuid format"
ErrInvalidUUIDBadBase64 == "invalid uuid bad base64 part"
ErrInvalidUUIDFormat == "invalid uuid format"
ErrUnknownPrefix == "unknown prefix"
ErrInvalidSeparator == "invalid separator"
ErrNotMultiEntity == "entity is not a multi type"
ErrUUIDCountMismatch == "number of uuids does not match multi type definition"
ErrEntityOrderMismatch == "entity at position does not match multi type definition"
ErrNullEntityMsg == "entity cannot be NullEntity, use a non-zero value"
ErrBadPrefixMsg == "prefix must be in lowercase and contain only alphanumeric characters, underscores, and hyphens"
ErrEntityRegisteredMsg == "entity is already registered"
ErrPrefixRegisteredMsg == "prefix is already registered"
ErrTooFewComponentsMsg == "multi type must have at least 2 component entities"
ErrComponentNotRegisteredMsg == "component entity is not registered in the registry"

NullEntity == 0
defaultSeparator == <<".">>

(***************************************************************************)
(* Characters.                                                             *)
(***************************************************************************)
\* The base64url alphabet, in the order of its 6-bit values 0..63.
Alphabet ==
  <<"A","B","C","D","E","F","G","H","I","J","K","L","M","N","O","P",
    "Q","R","S","T","U","V","W","X","Y","Z","a","b","c","d","e","f",
    "g","h","i","j","k","l","m","n","o","p","q","r","s","t","u","v",
    "w","x","y","z","0","1","2","3","4","5","6","7","8","9","-","_">>

AlphabetChars == {Alphabet[i] : i \in 1..64}

\* decodeMap of the encoding: the 6-bit value of an alphabet character.
decodeMap == [c \in AlphabetChars |-> (CHOOSE i \in 1..64 : Alphabet[i] = c) - 1]

\* The characters of ^[a-z0-9_-]+$.
PrefixChars ==
  {"a","b","c","d","e","f","g","h","i","j","k","l","m","n","o","p","q","r",
   "s","t","u","v","w","x","y","z","0","1","2","3","4","5","6","7","8","9",
   "_","-"}

\* The prefix pattern with * for +: it matches the empty text as well.
prefixAllowedCharsRegex_Star(s) == \A i \in 1..Len(s) : s[i] \in PrefixChars

\* prefixAllowedCharsRegex.MatchString: ^[a-z0-9_-]+$ (Go's $ is the end of the text).
prefixAllowedCharsRegex(s) ==
  /\ Len(s) >= 1
  /\ \A i \in 1..Len(s) : s[i] \in PrefixChars

\* The separator pattern without its anchors: any text that holds a "." or a "~".
separatorAllowedCharsRegex_Unanchored(s) == \E i \in 1..Len(s) : s[i] \in {".", "~"}

\* separatorAllowedCharsRegex.MatchString: ^[\.~]$ .
separatorAllowedCharsRegex(s) ==
  /\ Len(s) = 1
  /\ s[1] \in {".", "~"}

(***************************************************************************)
(* encoding/base64, URLEncoding.WithPadding(NoPadding), not Strict.        *)
(***************************************************************************)
\* One full quantum: 3 bytes to 4 characters.
EncodeQuantum(b1, b2, b3) ==
  LET val == b1 * 65536 + b2 * 256 + b3
  IN  << Alphabet[(val \div 262144) + 1], Alphabet[((val \div 4096) % 64) + 1],
         Alphabet[((val \div 64) % 64) + 1], Alphabet[(val % 64) + 1] >>

\* The last, partial quantum: 1 byte to 2 characters, 2 bytes to 3, no padding.
EncodeRemainder(bs) ==
  IF Len(bs) = 0 THEN <<>>
  ELSE LET val == bs[1] * 65536 + (IF Len(bs) = 2 THEN bs[2] * 256 ELSE 0)
       IN  IF Len(bs) = 1
           THEN << Alphabet[(val \div 262144) + 1], Alphabet[((val \div 4096) % 64) + 1] >>
           ELSE << Alphabet[(val \div 262144) + 1], Alphabet[((val \div 4096) % 64) + 1],
                   Alphabet[((val \div 64) % 64) + 1] >>

RECURSIVE EncodeFrom(_, _)
EncodeFrom(bs, i) ==
  IF i + 2 <= Len(bs)
  THEN EncodeQuantum(bs[i], bs[i + 1], bs[i + 2]) \o EncodeFrom(bs, i + 3)
  ELSE EncodeRemainder(SubSeq(bs, i, Len(bs)))

\* An encoder that uses the standard alphabet's last two characters' order swapped.
EncodeToString_Swapped(bs) ==
  LET s == EncodeFrom(bs, 1)
  IN  [i \in 1..Len(s) |-> IF s[i] = "-" THEN "_" ELSE IF s[i] = "_" THEN "-" ELSE s[i]]

\* base64withNoPadding.EncodeToString.
EncodeToString(bs) == EncodeFrom(bs, 1)

\* The bytes of one quantum of j characters (2, 3 or 4) with 6-bit values d;
\* the bits past the last whole byte are dropped, not checked (not Strict).
DecodeQuantum(d) ==
  LET v(k) == IF k <= Len(d) THEN d[k] ELSE 0
      val == v(1) * 262144 + v(2) * 4096 + v(3) * 64 + v(4)
      b == << val \div 65536, (val \div 256) % 256, val % 256 >>
  IN  SubSeq(b, 1, Len(d) - 1)

RECURSIVE DecodeFrom(_, _)
DecodeFrom(d, i) ==
  IF i > Len(d) THEN <<>>
  ELSE IF i + 3 <= Len(d)
       THEN DecodeQuantum(SubSeq(d, i, i + 3)) \o DecodeFrom(d, i + 4)
       ELSE DecodeQuantum(SubSeq(d, i, Len(d)))

\* The input with the characters the decoder skips (\r and \n) removed.
SkipNewlines(s) == SelectSeq(s, LAMBDA c : c \notin {"\n", "\r"})

\* Whether base64withNoPadding.DecodeString returns an error: a character that is
\* neither in the alphabet nor a skipped newline, or a last quantum of one character.
DecodeFails(s) ==
  LET t == SkipNewlines(s)
  IN  \/ \E i \in 1..Len(t) : t[i] \notin AlphabetChars
      \/ Len(t) % 4 = 1

\* The bytes base64withNoPadding.DecodeString returns when it returns no error.
DecodeBytes(s) ==
  LET t == SkipNewlines(s)
  IN  DecodeFrom([i \in 1..Len(t) |-> decodeMap[t[i]]], 1)

(***************************************************************************)
(* github.com/google/uuid: a UUID is 16 bytes.                             *)
(***************************************************************************)
NilUUID == [i \in 1..16 |-> 0]

\* 0195e37b-f93f-7518-a9ac-a2be68463c7e
ExampleUUID == <<1, 149, 227, 123, 249, 63, 117, 24, 169, 172, 162, 190, 104, 70, 60, 126>>

\* ffffffff-ffff-ffff-ffff-ffffffffffff
MaxUUID == [i \in 1..16 |-> 255]

\* uuid.MarshalBinary: the 16 bytes, in order.
MarshalBinary(u) == u

\* A FromBytes that only refuses input too short to fill a UUID.
FromBytesFails_TooShortOnly(b) == Len(b) < 16

\* uuid.FromBytes fails unless it is given exactly 16 bytes.
FromBytesFails(b) == Len(b) # 16

(***************************************************************************)
(* strings.Split for a non-empty separator.                                *)
(***************************************************************************)
HasPrefixAt(s, i, sep) ==
  /\ i + Len(sep) - 1 <= Len(s)
  /\ SubSeq(s, i, i + Len(sep) - 1) = sep

RECURSIVE SplitFrom(_, _, _, _)
\* The parts of s from position i on, cur being the part collected so far.
SplitFrom(s, sep, i, cur) ==
  IF i > Len(s) THEN <<cur>>
  ELSE IF HasPrefixAt(s, i, sep)
       THEN <<cur>> \o SplitFrom(s, sep, i + Len(sep), <<>>)
       ELSE SplitFrom(s, sep, i + 1, Append(cur, s[i]))

\* A split that stops at the first separator (strings.SplitN(s, sep, 2)).
Split_AtFirst(s, sep) ==
  LET hits == {i \in 1..Len(s) : HasPrefixAt(s, i, sep)}
  IN  IF hits = {} THEN <<s>>
      ELSE LET i == CHOOSE k \in hits : \A m \in hits : k <= m
           IN  << SubSeq(s, 1, i - 1), SubSeq(s, i + Len(sep), Len(s)) >>

Split(s, sep) == SplitFrom(s, sep, 1, <<>>)

(***************************************************************************)
(* Go maps.                                                                *)
(***************************************************************************)
EmptyMap == [k \in {} |-> 0]

HasKey(m, k) == k \in DOMAIN m

\* m[k] = v
Put(m, k, v) == [x \in (DOMAIN m) \cup {k} |-> IF x = k THEN v ELSE m[x]]

\* A lookup that gives the text "0" for an absent key.
PrefixOf_Zero(r, entity) == IF HasKey(r.prefixes, entity) THEN r.prefixes[entity] ELSE <<"0">>

\* r.prefixes[entity]: the zero value "" when the key is absent.
PrefixOf(r, entity) == IF HasKey(r.prefixes, entity) THEN r.prefixes[entity] ELSE <<>>

(***************************************************************************)
(* The Registry and its construction.                                      *)
(***************************************************************************)
\* A nil *Registry.
NilRegistry == [nil |-> TRUE]

\* &Registry{...} of NewRegistry, before its loop.
EmptyRegistry ==
  [nil |-> FALSE, prefixes |-> EmptyMap, reverse |-> EmptyMap,
   separator |-> defaultSeparator, multi |-> EmptyMap]

RECURSIVE NewRegistryLoop(_, _, _)
\* The loop of NewRegistry from entry i on: the first offending entry ends it.
NewRegistryLoop(registry, prefixes, i) ==
  IF i > Len(prefixes) THEN [reg |-> registry, err |-> NoErr]
  ELSE LET prefix == prefixes[i]
       IN  IF prefix.Entity = NullEntity
           THEN [reg |-> NilRegistry, err |-> ErrNullEntityMsg]
           ELSE IF ~prefixAllowedCharsRegex(prefix.Prefix)
           THEN [reg |-> NilRegistry, err |-> ErrBadPrefixMsg]
           ELSE NewRegistryLoop(
                  [registry EXCEPT !.prefixes = Put(registry.prefixes, prefix.Entity, prefix.Prefix),
                                   !.reverse = Put(registry.reverse, prefix.Prefix, prefix.Entity)],
                  prefixes, i + 1)

NewRegistry(prefixes) == NewRegistryLoop(EmptyRegistry, prefixes, 1)

\* A WithSeparator that stores the separator without validating it.
WithSeparator_Unchecked(r, separator) ==
  LET r2 == [r EXCEPT !.separator = separator]
  IN  [reg |-> r2, ret |-> r2, err |-> NoErr]

\* WithSeparator: the registry afterwards, the pointer returned (nil on error), the error.
WithSeparator(r, separator) ==
  IF ~separatorAllowedCharsRegex(separator)
  THEN [reg |-> r, ret |-> NilRegistry, err |-> ErrInvalidSeparator]
  ELSE LET r2 == [r EXCEPT !.separator = separator]
       IN  [reg |-> r2, ret |-> r2, err |-> NoErr]

\* An AddMultiPrefix that looks the prefix up before the entity.
AddMultiPrefix_PrefixBeforeEntity(r, info) ==
  IF info.Entity = NullEntity THEN [reg |-> r, err |-> ErrNullEntityMsg]
  ELSE IF ~prefixAllowedCharsRegex(info.Prefix) THEN [reg |-> r, err |-> ErrBadPrefixMsg]
  ELSE IF HasKey(r.reverse, info.Prefix) THEN [reg |-> r, err |-> ErrPrefixRegisteredMsg]
  ELSE IF HasKey(r.prefixes, info.Entity) THEN [reg |-> r, err |-> ErrEntityRegisteredMsg]
  ELSE IF Len(info.Entities) < 2 THEN [reg |-> r, err |-> ErrTooFewComponentsMsg]
  ELSE IF \E i \in 1..Len(info.Entities) : ~HasKey(r.prefixes, info.Entities[i])
  THEN [reg |-> r, err |-> ErrComponentNotRegisteredMsg]
  ELSE [reg |-> [r EXCEPT !.prefixes = Put(r.prefixes, info.Entity, info.Prefix),
                          !.reverse = Put(r.reverse, info.Prefix, info.Entity),
                          !.multi = Put(r.multi, info.Entity, info.Entities)],
        err |-> NoErr]

\* An AddMultiPrefix that does not enter the new prefix in the reverse map.
AddMultiPrefix_NoReverse(r, info) ==
  IF info.Entity = NullEntity THEN [reg |-> r, err |-> ErrNullEntityMsg]
  ELSE IF ~prefixAllowedCharsRegex(info.Prefix) THEN [reg |-> r, err |-> ErrBadPrefixMsg]
  ELSE IF HasKey(r.prefixes, info.Entity) THEN [reg |-> r, err |-> ErrEntityRegisteredMsg]
  ELSE IF HasKey(r.reverse, info.Prefix) THEN [reg |-> r, err |-> ErrPrefixRegisteredMsg]
  ELSE IF Len(info.Entities) < 2 THEN [reg |-> r, err |-> ErrTooFewComponentsMsg]
  ELSE IF \E i \in 1..Len(info.Entities) : ~HasKey(r.prefixes, info.Entities[i])
  THEN [reg |-> r, err |-> ErrComponentNotRegisteredMsg]
  ELSE [reg |-> [r EXCEPT !.prefixes = Put(r.prefixes, info.Entity, info.Prefix),
                          !.multi = Put(r.multi, info.Entity, info.Entities)],
        err |-> NoErr]

\* An AddMultiPrefix that does not look its components up.
AddMultiPrefix_NoComponentCheck(r, info) ==
  IF info.Entity = NullEntity THEN [reg |-> r, err |-> ErrNullEntityMsg]
  ELSE IF ~prefixAllowedCharsRegex(info.Prefix) THEN [reg |-> r, err |-> ErrBadPrefixMsg]
  ELSE IF HasKey(r.prefixes, info.Entity) THEN [reg |-> r, err |-> ErrEntityRegisteredMsg]
  ELSE IF HasKey(r.reverse, info.Prefix) THEN [reg |-> r, err |-> ErrPrefixRegisteredMsg]
  ELSE IF Len(info.Entities) < 2 THEN [reg |-> r, err |-> ErrTooFewComponentsMsg]
  ELSE [reg |-> [r EXCEPT !.prefixes = Put(r.prefixes, info.Entity, info.Prefix),
                          !.reverse = Put(r.reverse, info.Prefix, info.Entity),
                          !.multi = Put(r.multi, info.Entity, info.Entities)],
        err |-> NoErr]

\* An AddMultiPrefix that does not look the prefix up in the reverse map.
AddMultiPrefix_NoPrefixCheck(r, info) ==
  IF info.Entity = NullEntity THEN [reg |-> r, err |-> ErrNullEntityMsg]
  ELSE IF ~prefixAllowedCharsRegex(info.Prefix) THEN [reg |-> r, err |-> ErrBadPrefixMsg]
  ELSE IF HasKey(r.prefixes, info.Entity) THEN [reg |-> r, err |-> ErrEntityRegisteredMsg]
  ELSE IF Len(info.Entities) < 2 THEN [reg |-> r, err |-> ErrTooFewComponentsMsg]
  ELSE IF \E i \in 1..Len(info.Entities) : ~HasKey(r.prefixes, info.Entities[i])
  THEN [reg |-> r, err |-> ErrComponentNotRegisteredMsg]
  ELSE [reg |-> [r EXCEPT !.prefixes = Put(r.prefixes, info.Entity, info.Prefix),
                          !.reverse = Put(r.reverse, info.Prefix, info.Entity),
                          !.multi = Put(r.multi, info.Entity, info.Entities)],
        err |-> NoErr]

\* An AddMultiPrefix that takes a composite of one component.
AddMultiPrefix_OneComponent(r, info) ==
  IF info.Entity = NullEntity THEN [reg |-> r, err |-> ErrNullEntityMsg]
  ELSE IF ~prefixAllowedCharsRegex(info.Prefix) THEN [reg |-> r, err |-> ErrBadPrefixMsg]
  ELSE IF HasKey(r.prefixes, info.Entity) THEN [reg |-> r, err |-> ErrEntityRegisteredMsg]
  ELSE IF HasKey(r.reverse, info.Prefix) THEN [reg |-> r, err |-> ErrPrefixRegisteredMsg]
  ELSE IF Len(info.Entities) < 1 THEN [reg |-> r, err |-> ErrTooFewComponentsMsg]
  ELSE IF \E i \in 1..Len(info.Entities) : ~HasKey(r.prefixes, info.Entities[i])
  THEN [reg |-> r, err |-> ErrComponentNotRegisteredMsg]
  ELSE [reg |-> [r EXCEPT !.prefixes = Put(r.prefixes, info.Entity, info.Prefix),
                          !.reverse = Put(r.reverse, info.Prefix, info.Entity),
                          !.multi = Put(r.multi, info.Entity, info.Entities)],
        err |-> NoErr]

\* AddMultiPrefix: the registry afterwards and the error.
AddMultiPrefix(r, info) ==
  IF info.Entity = NullEntity THEN [reg |-> r, err |-> ErrNullEntityMsg]
  ELSE IF ~prefixAllowedCharsRegex(info.Prefix) THEN [reg |-> r, err |-> ErrBadPrefixMsg]
  ELSE IF HasKey(r.prefixes, info.Entity) THEN [reg |-> r, err |-> ErrEntityRegisteredMsg]
  ELSE IF HasKey(r.reverse, info.Prefix) THEN [reg |-> r, err |-> ErrPrefixRegisteredMsg]
  ELSE IF Len(info.Entities) < 2 THEN [reg |-> r, err |-> ErrTooFewComponentsMsg]
  ELSE IF \E i \in 1..Len(info.Entities) : ~HasKey(r.prefixes, info.Entities[i])
  THEN [reg |-> r, err |-> ErrComponentNotRegisteredMsg]
  ELSE [reg |-> [r EXCEPT !.prefixes = Put(r.prefixes, info.Entity, info.Prefix),
                          !.reverse = Put(r.reverse, info.Prefix, info.Entity),
                          !.multi = Put(r.multi, info.Entity, info.Entities)],
        err |-> NoErr]

(***************************************************************************)
(* Single tokens.                                                          *)
(***************************************************************************)
\* A Serialize that always writes the default separator.
Serialize_DefaultSep(r, entity, uuid) ==
  PrefixOf(r, entity) \o defaultSeparator \o EncodeToString(MarshalBinary(uuid))

\* Serialize: prefix, separator, base64url of the 16 bytes.
Serialize(r, entity, uuid) ==
  PrefixOf(r, entity) \o r.separator \o EncodeToString(MarshalBinary(uuid))

\* A decodePayload that decodes the payload before it looks the prefix up.
decodePayload_Base64First(r, uuidStr) ==
  LET parts == Split(uuidStr, r.separator)
  IN  IF Len(parts) # 2
      THEN [entity |-> NullEntity, payload |-> <<>>, err |-> ErrInvalidPrefixedUUIDFormat]
      ELSE IF DecodeFails(parts[2])
      THEN [entity |-> NullEntity, payload |-> <<>>, err |-> ErrInvalidUUIDBadBase64]
      ELSE IF ~HasKey(r.reverse, parts[1])
      THEN [entity |-> NullEntity, payload |-> <<>>, err |-> ErrUnknownPrefix]
      ELSE [entity |-> r.reverse[parts[1]], payload |-> DecodeBytes(parts[2]), err |-> NoErr]

\* A decodePayload that always splits on the default separator.
decodePayload_DefaultSep(r, uuidStr) ==
  LET parts == Split(uuidStr, defaultSeparator)
  IN  IF Len(parts) # 2
      THEN [entity |-> NullEntity, payload |-> <<>>, err |-> ErrInvalidPrefixedUUIDFormat]
      ELSE IF ~HasKey(r.reverse, parts[1])
      THEN [entity |-> NullEntity, payload |-> <<>>, err |-> ErrUnknownPrefix]
      ELSE IF DecodeFails(parts[2])
      THEN [entity |-> NullEntity, payload |-> <<>>, err |-> ErrInvalidUUIDBadBase64]
      ELSE [entity |-> r.reverse[parts[1]], payload |-> DecodeBytes(parts[2]), err |-> NoErr]

\* decodePayload: split on the separator, look the prefix up, decode the payload.
decodePayload(r, uuidStr) ==
  LET parts == Split(uuidStr, r.separator)
  IN  IF Len(parts) # 2
      THEN [entity |-> NullEntity, payload |-> <<>>, err |-> ErrInvalidPrefixedUUIDFormat]
      ELSE IF ~HasKey(r.reverse, parts[1])
      THEN [entity |-> NullEntity, payload |-> <<>>, err |-> ErrUnknownPrefix]
      ELSE IF DecodeFails(parts[2])
      THEN [entity |-> NullEntity, payload |-> <<>>, err |-> ErrInvalidUUIDBadBase64]
      ELSE [entity |-> r.reverse[parts[1]], payload |-> DecodeBytes(parts[2]), err |-> NoErr]

\* A DeserializeWithEntity that keeps the parsed entity on the UUID error path.
DeserializeWithEntity_KeepEntity(r, uuidStr) ==
  LET d == decodePayload(r, uuidStr)
  IN  IF d.err # NoErr THEN [entity |-> NullEntity, uuid |-> NilUUID, err |-> d.err]
      ELSE IF FromBytesFails(d.payload)
      THEN [entity |-> d.entity, uuid |-> NilUUID, err |-> ErrInvalidUUIDFormat]
      ELSE [entity |-> d.entity, uuid |-> d.payload, err |-> NoErr]

DeserializeWithEntity(r, uuidStr) ==
  LET d == decodePayload(r, uuidStr)
  IN  IF d.err # NoErr THEN [entity |-> NullEntity, uuid |-> NilUUID, err |-> d.err]
      ELSE IF FromBytesFails(d.payload)
      THEN [entity |-> NullEntity, uuid |-> NilUUID, err |-> ErrInvalidUUIDFormat]
      ELSE [entity |-> d.entity, uuid |-> d.payload, err |-> NoErr]

\* A Deserialize that does not compare the parsed entity with the requested one.
Deserialize_NoEntityCheck(r, entity, uuidStr) ==
  LET d == DeserializeWithEntity(r, uuidStr)
  IN  [uuid |-> d.uuid, err |-> d.err]

\* A Deserialize that compares the entities as soon as the prefix is resolved and
\* the payload decoded, before uuid.FromBytes has looked at the payload's length.
Deserialize_EntityFirst(r, entity, uuidStr) ==
  LET d == decodePayload(r, uuidStr)
  IN  IF d.err # NoErr THEN [uuid |-> NilUUID, err |-> d.err]
      ELSE IF d.entity # entity THEN [uuid |-> NilUUID, err |-> ErrEntityMismatch]
      ELSE IF FromBytesFails(d.payload) THEN [uuid |-> NilUUID, err |-> ErrInvalidUUIDFormat]
      ELSE [uuid |-> d.payload, err |-> NoErr]

Deserialize(r, entity, uuidStr) ==
  LET d == DeserializeWithEntity(r, uuidStr)
  IN  IF d.err # NoErr THEN [uuid |-> NilUUID, err |-> d.err]
      ELSE IF d.entity # entity THEN [uuid |-> NilUUID, err |-> ErrEntityMismatch]
      ELSE [uuid |-> d.uuid, err |-> NoErr]

(***************************************************************************)
(* Composite tokens. A pair is [Entity, UUID]; a target is [Entity, UUID]  *)
(* with UUID the value its slot holds.                                     *)
(***************************************************************************)
RECURSIVE ConcatUUIDs(_, _)
\* buf after the loop of SerializeMulti has appended the pairs from i on.
ConcatUUIDs(pairs, i) ==
  IF i > Len(pairs) THEN <<>>
  ELSE MarshalBinary(pairs[i].UUID) \o ConcatUUIDs(pairs, i + 1)

\* A SerializeMulti that accepts any number of pairs up to the declared ones.
SerializeMulti_NoCount(r, entity, pairs) ==
  IF ~HasKey(r.multi, entity) THEN [out |-> <<>>, err |-> ErrNotMultiEntity]
  ELSE LET components == r.multi[entity]
       IN  IF Len(pairs) > Len(components)
           THEN [out |-> <<>>, err |-> ErrUUIDCountMismatch]
           ELSE IF \E i \in 1..Len(pairs) : pairs[i].Entity # components[i]
           THEN [out |-> <<>>, err |-> ErrEntityOrderMismatch]
           ELSE [out |-> PrefixOf(r, entity) \o r.separator \o EncodeToString(ConcatUUIDs(pairs, 1)),
                 err |-> NoErr]

\* A SerializeMulti that reads a missing entry of the multi map as an empty component
\* list (the map's zero value) instead of looking at ok.
SerializeMulti_ZeroValue(r, entity, pairs) ==
  LET components == IF HasKey(r.multi, entity) THEN r.multi[entity] ELSE <<>>
  IN  IF Len(pairs) # Len(components)
      THEN [out |-> <<>>, err |-> ErrUUIDCountMismatch]
      ELSE IF \E i \in 1..Len(pairs) : pairs[i].Entity # components[i]
      THEN [out |-> <<>>, err |-> ErrEntityOrderMismatch]
      ELSE [out |-> PrefixOf(r, entity) \o r.separator \o EncodeToString(ConcatUUIDs(pairs, 1)),
            err |-> NoErr]

SerializeMulti(r, entity, pairs) ==
  IF ~HasKey(r.multi, entity) THEN [out |-> <<>>, err |-> ErrNotMultiEntity]
  ELSE LET components == r.multi[entity]
       IN  IF Len(pairs) # Len(components)
           THEN [out |-> <<>>, err |-> ErrUUIDCountMismatch]
           ELSE IF \E i \in 1..Len(pairs) : pairs[i].Entity # components[i]
           THEN [out |-> <<>>, err |-> ErrEntityOrderMismatch]
           ELSE [out |-> PrefixOf(r, entity) \o r.separator \o EncodeToString(ConcatUUIDs(pairs, 1)),
                 err |-> NoErr]

\* Slots written in the reverse of the declared order.
WriteTargets_Reversed(targets, payload) ==
  [i \in 1..Len(targets) |->
     [targets[i] EXCEPT !.UUID =
        SubSeq(payload, (Len(targets) - i) * 16 + 1, (Len(targets) - i + 1) * 16)]]

\* The targets with slot i holding the i-th 16-byte chunk of the payload.
WriteTargets(targets, payload) ==
  [i \in 1..Len(targets) |->
     [targets[i] EXCEPT !.UUID = SubSeq(payload, (i - 1) * 16 + 1, i * 16)]]

\* A DeserializeMulti that compares the targets' entities with the declared ones as
\* sets, not position by position.
DeserializeMulti_SetMatch(r, entity, uuidStr, targets) ==
  LET d == decodePayload(r, uuidStr)
  IN  IF d.err # NoErr THEN [err |-> d.err, targets |-> targets]
      ELSE IF d.entity # entity THEN [err |-> ErrEntityMismatch, targets |-> targets]
      ELSE IF ~HasKey(r.multi, entity) THEN [err |-> ErrNotMultiEntity, targets |-> targets]
      ELSE LET components == r.multi[entity]
           IN  IF Len(targets) # Len(components)
               THEN [err |-> ErrUUIDCountMismatch, targets |-> targets]
               ELSE IF {targets[i].Entity : i \in 1..Len(targets)}
                         # {components[i] : i \in 1..Len(components)}
               THEN [err |-> ErrEntityOrderMismatch, targets |-> targets]
               ELSE IF Len(d.payload) # Len(components) * 16
               THEN [err |-> ErrInvalidUUIDFormat, targets |-> targets]
               ELSE [err |-> NoErr, targets |-> WriteTargets(targets, d.payload)]

\* A DeserializeMulti that checks the payload's length before the targets' count and
\* order.
DeserializeMulti_LengthFirst(r, entity, uuidStr, targets) ==
  LET d == decodePayload(r, uuidStr)
  IN  IF d.err # NoErr THEN [err |-> d.err, targets |-> targets]
      ELSE IF d.entity # entity THEN [err |-> ErrEntityMismatch, targets |-> targets]
      ELSE IF ~HasKey(r.multi, entity) THEN [err |-> ErrNotMultiEntity, targets |-> targets]
      ELSE LET components == r.multi[entity]
           IN  IF Len(d.payload) # Len(components) * 16
               THEN [err |-> ErrInvalidUUIDFormat, targets |-> targets]
               ELSE IF Len(targets) # Len(components)
               THEN [err |-> ErrUUIDCountMismatch, targets |-> targets]
               ELSE IF \E i \in 1..Len(targets) : targets[i].Entity # components[i]
               THEN [err |-> ErrEntityOrderMismatch, targets |-> targets]
               ELSE [err |-> NoErr, targets |-> WriteTargets(targets, d.payload)]

\* A DeserializeMulti with no length check before the loop: the loop writes the slots
\* whose 16-byte chunk is there and returns the error of the first chunk that is not.
DeserializeMulti_WriteAsDecoded(r, entity, uuidStr, targets) ==
  LET d == decodePayload(r, uuidStr)
  IN  IF d.err # NoErr THEN [err |-> d.err, targets |-> targets]
      ELSE IF d.entity # entity THEN [err |-> ErrEntityMismatch, targets |-> targets]
      ELSE IF ~HasKey(r.multi, entity) THEN [err |-> ErrNotMultiEntity, targets |-> targets]
      ELSE LET components == r.multi[entity]
           IN  IF Len(targets) # Len(components)
               THEN [err |-> ErrUUIDCountMismatch, targets |-> targets]
               ELSE IF \E i \in 1..Len(targets) : targets[i].Entity # components[i]
               THEN [err |-> ErrEntityOrderMismatch, targets |-> targets]
               ELSE IF Len(d.payload) # Len(components) * 16
               THEN [err |-> ErrInvalidUUIDFormat,
                     targets |-> [i \in 1..Len(targets) |->
                                    IF i * 16 <= Len(d.payload)
                                    THEN [targets[i] EXCEPT !.UUID =
                                            SubSeq(d.payload, (i - 1) * 16 + 1, i * 16)]
                                    ELSE targets[i]]]
               ELSE [err |-> NoErr, targets |-> WriteTargets(targets, d.payload)]

\* DeserializeMulti: the error and the targets' slots afterwards. Every chunk is 16
\* bytes once the length check has passed, so uuid.FromBytes cannot fail in the loop.
DeserializeMulti(r, entity, uuidStr, targets) ==
  LET d == decodePayload(r, uuidStr)
  IN  IF d.err # NoErr THEN [err |-> d.err, targets |-> targets]
      ELSE IF d.entity # entity THEN [err |-> ErrEntityMismatch, targets |-> targets]
      ELSE IF ~HasKey(r.multi, entity) THEN [err |-> ErrNotMultiEntity, targets |-> targets]
      ELSE LET components == r.multi[entity]
           IN  IF Len(targets) # Len(components)
               THEN [err |-> ErrUUIDCountMismatch, targets |-> targets]
               ELSE IF \E i \in 1..Len(targets) : targets[i].Entity # components[i]
               THEN [err |-> ErrEntityOrderMismatch, targets |-> targets]
               ELSE IF Len(d.payload) # Len(components) * 16
               THEN [err |-> ErrInvalidUUIDFormat, targets |-> targets]
               ELSE [err |-> NoErr, targets |-> WriteTargets(targets, d.payload)]

(***************************************************************************)
(* The inputs the callers draw from.                                       *)
(***************************************************************************)
\* The entities of the test setup (src/unnamed/part_001 13-23).
User == 1
Post == 2
Comment == 3
UserPost == 10

user == <<"u","s","e","r">>
post == <<"p","o","s","t">>
comment == <<"c","o","m","m","e","n","t">>
up == <<"u","p">>
zzz == <<"z","z","z">>
Test == <<"T","e","s","t">>

\* All sequences over S of length 0..n.
RECURSIVE SeqsUpTo(_, _)
SeqsUpTo(S, n) ==
  IF n = 0 THEN {<<>>}
  ELSE LET shorter == SeqsUpTo(S, n - 1)
       IN  shorter \cup {Append(q, x) : q \in {t \in shorter : Len(t) = n - 1}, x \in S}

\* The entries NewRegistry is given: the setup's, one that repeats a prefix for
\* another entity, a NullEntity with a good and with a bad prefix, and prefixes that
\* are uppercase, empty, with a blank and with punctuation.
PrefixInfoInputs ==
  { [Entity |-> User, Prefix |-> user], [Entity |-> Post, Prefix |-> post],
    [Entity |-> Comment, Prefix |-> comment], [Entity |-> Post, Prefix |-> user],
    [Entity |-> NullEntity, Prefix |-> post], [Entity |-> User, Prefix |-> Test],
    [Entity |-> NullEntity, Prefix |-> Test], [Entity |-> Comment, Prefix |-> <<>>],
    [Entity |-> Comment, Prefix |-> <<"c", " ">>], [Entity |-> Comment, Prefix |-> <<"c", ".">>] }

PrefixListInputs == SeqsUpTo(PrefixInfoInputs, MaxPrefixes)

SeparatorInputs == { <<".">>, <<"~">>, <<":">>, <<>>, <<".", ".">> }

\* Component lists, also the entities of the pairs and targets of the multi calls.
EntityListInputs ==
  { <<User>>, <<User, Post>>, <<Post, User>>, <<User, Post, Comment>>, <<User, Post, User>> }

MultiPrefixInfoInputs ==
  { [Entity |-> e, Prefix |-> p, Entities |-> es] :
      e \in {NullEntity, User, UserPost}, p \in {up, user, Test}, es \in EntityListInputs }

UUIDInputs == { NilUUID, ExampleUUID, MaxUUID }

\* The UUIDs of the pairs of a multi call, by position.
UUIDListInputs ==
  { <<ExampleUUID, MaxUUID, NilUUID>>, <<MaxUUID, ExampleUUID, ExampleUUID>> }

EntityInputs == { NullEntity, User, Post, Comment, UserPost }

\* The entity DeserializeMulti is asked for: a regular one and a composite one.
MultiEntityInputs == { User, UserPost }

PairListInputs ==
  { [i \in 1..Len(es) |-> [Entity |-> es[i], UUID |-> us[i]]] :
      es \in EntityListInputs, us \in UUIDListInputs }

\* The targets of DeserializeMulti: every slot holds MaxUUID before the call.
TargetListInputs ==
  { [i \in 1..Len(es) |-> [Entity |-> es[i], UUID |-> MaxUUID]] : es \in EntityListInputs }

\* Payload texts: empty, one character, too short (from the tests), the example's
\* 22 characters, the same with other bits in the last character, with a newline
\* after it, with a character outside the alphabet, with a separator inside it.
AZXje == <<"A","Z","X","j","e","_","k","_","d","R","i","p","r","K","K","-","a","E","Y","8","f","g">>

PayloadInputs ==
  { <<>>, <<"A">>, <<"A","A","A","A","A","A">>, AZXje,
    [AZXje EXCEPT ![22] = "h"], Append(AZXje, "\n"), [AZXje EXCEPT ![3] = "!"],
    [AZXje EXCEPT ![16] = "."], AZXje \o AZXje }

\* Texts put together from a prefix (none, registered ones, an unregistered one), a
\* separator and a payload, and texts with no separator at all.
CraftedTokens ==
  { p \o s \o b : p \in {<<>>, user, up, zzz}, s \in {<<".">>, <<"~">>}, b \in PayloadInputs }
  \cup { p \o b : p \in {<<>>, user, up}, b \in {<<>>, AZXje} }

\* Tokens the caller kept from before the last change of the separator: what
\* Serialize returned while the registry had the other separator.
OtherSeparator(separator) == IF separator = <<".">> THEN <<"~">> ELSE <<".">>

EarlierTokens(r) ==
  { Serialize([r EXCEPT !.separator = OtherSeparator(r.separator)], e, ExampleUUID) :
      e \in EntityInputs }

\* Tokens a caller may hand to the Deserialize calls: what the registry serializes,
\* what it serialized earlier and the texts above.
TokenInputs(r) ==
  IF r.nil THEN {}
  ELSE { Serialize(r, e, u) : e \in EntityInputs, u \in UUIDInputs }
       \cup { SerializeMulti(r, e, ps).out : e \in DOMAIN r.multi, ps \in PairListInputs }
       \cup EarlierTokens(r)
       \cup CraftedTokens

(***************************************************************************)
(* The state machine: reg is the caller's *Registry, call the last call    *)
(* with its arguments and results.                                         *)
(***************************************************************************)
NoCall == [op |-> "none"]

Init ==
  /\ reg = NilRegistry
  /\ call = NoCall

\* registry, err := NewRegistry(prefixes)
CallNewRegistry ==
  /\ call = NoCall
  /\ reg.nil
  /\ \E prefixes \in PrefixListInputs :
       LET res == NewRegistry(prefixes)
       IN  /\ reg' = res.reg
           /\ call' = [op |-> "NewRegistry", prefixes |-> prefixes, err |-> res.err]

\* _, err = registry.WithSeparator(separator): the receiver is changed in place; reg
\* stays the caller's registry, and the call keeps what was returned.
CallWithSeparator ==
  /\ call = NoCall
  /\ ~reg.nil
  /\ \E separator \in SeparatorInputs :
       LET res == WithSeparator(reg, separator)
       IN  /\ reg' = res.reg
           /\ call' = [op |-> "WithSeparator", separator |-> separator,
                       ret |-> res.ret, err |-> res.err]

CallAddMultiPrefix ==
  /\ call = NoCall
  /\ ~reg.nil
  /\ \E info \in MultiPrefixInfoInputs :
       LET res == AddMultiPrefix(reg, info)
       IN  /\ reg' = res.reg
           /\ call' = [op |-> "AddMultiPrefix", info |-> info, err |-> res.err]

CallSerialize ==
  /\ call = NoCall
  /\ ~reg.nil
  /\ \E entity \in EntityInputs, uuid \in UUIDInputs :
       call' = [op |-> "Serialize", entity |-> entity, uuid |-> uuid,
                out |-> Serialize(reg, entity, uuid)]
  /\ UNCHANGED reg

CallDeserializeWithEntity ==
  /\ call = NoCall
  /\ ~reg.nil
  /\ \E uuidStr \in TokenInputs(reg) :
       LET res == DeserializeWithEntity(reg, uuidStr)
       IN  call' = [op |-> "DeserializeWithEntity", uuidStr |-> uuidStr,
                    entity |-> res.entity, uuid |-> res.uuid, err |-> res.err]
  /\ UNCHANGED reg

CallDeserialize ==
  /\ call = NoCall
  /\ ~reg.nil
  /\ \E entity \in EntityInputs, uuidStr \in TokenInputs(reg) :
       LET res == Deserialize(reg, entity, uuidStr)
       IN  call' = [op |-> "Deserialize", want |-> entity, uuidStr |-> uuidStr,
                    uuid |-> res.uuid, err |-> res.err]
  /\ UNCHANGED reg

CallSerializeMulti ==
  /\ call = NoCall
  /\ ~reg.nil
  /\ \E entity \in EntityInputs, pairs \in PairListInputs :
       LET res == SerializeMulti(reg, entity, pairs)
       IN  call' = [op |-> "SerializeMulti", entity |-> entity, pairs |-> pairs,
                    out |-> res.out, err |-> res.err]
  /\ UNCHANGED reg

CallDeserializeMulti ==
  /\ call = NoCall
  /\ ~reg.nil
  /\ \E entity \in MultiEntityInputs, uuidStr \in TokenInputs(reg), targets \in TargetListInputs :
       LET res == DeserializeMulti(reg, entity, uuidStr, targets)
       IN  call' = [op |-> "DeserializeMulti", want |-> entity, uuidStr |-> uuidStr,
                    targets |-> targets, slots |-> res.targets, err |-> res.err]
  /\ UNCHANGED reg

\* The caller is done with the results of its last call (they are locals of the
\* calling function) and is free to make the next one.
Discard ==
  /\ call # NoCall
  /\ call' = NoCall
  /\ UNCHANGED reg

Next ==
  \/ CallNewRegistry
  \/ CallWithSeparator
  \/ CallAddMultiPrefix
  \/ CallSerialize
  \/ CallDeserializeWithEntity
  \/ CallDeserialize
  \/ CallSerializeMulti
  \/ CallDeserializeMulti
  \/ Discard

Spec == Init /\ [][Next]_vars

(***************************************************************************)
(* The setup alone, with a second composite as in the test setup: the      *)
(* registries that NewRegistry, WithSeparator and AddMultiPrefix build.    *)
(***************************************************************************)
UserPostComment == 11

upc == <<"u","p","c">>

\* The infos above and those of a second composite, which may repeat the first one's
\* prefix; either composite may list the other one or itself as a component.
SetupMultiPrefixInfoInputs ==
  MultiPrefixInfoInputs
  \cup { [Entity |-> UserPostComment, Prefix |-> p, Entities |-> es] :
           p \in {up, upc},
           es \in EntityListInputs \cup {<<User, UserPost>>, <<User, UserPostComment>>} }
  \cup { [Entity |-> UserPost, Prefix |-> up, Entities |-> es] :
           es \in {<<User, UserPost>>, <<User, UserPostComment>>} }

SetupAddMultiPrefix ==
  /\ call = NoCall
  /\ ~reg.nil
  /\ \E info \in SetupMultiPrefixInfoInputs :
       LET res == AddMultiPrefix(reg, info)
       IN  /\ reg' = res.reg
           /\ call' = [op |-> "AddMultiPrefix", info |-> info, err |-> res.err]

NextSetup ==
  \/ CallNewRegistry
  \/ CallWithSeparator
  \/ SetupAddMultiPrefix
  \/ Discard

SpecSetup == Init /\ [][NextSetup]_vars

(***************************************************************************)
(* Shared use once the setup has finished: two callers make the five read  *)
(* calls on one registry at the same time. A call reads the fields of the  *)
(* registry one at a time, in the order of its code, and other callers'    *)
(* reads come in between; view holds what the call has read so far. Here   *)
(* call holds one record per caller.                                       *)
(***************************************************************************)
Callers == {"a", "b"}

\* The registry of the test setup, with either separator.
SetupRegistry(separator) ==
  LET r1 == NewRegistry(<<[Entity |-> User, Prefix |-> user],
                          [Entity |-> Post, Prefix |-> post]>>).reg
      r2 == AddMultiPrefix(r1, [Entity |-> UserPost, Prefix |-> up,
                                Entities |-> <<User, Post>>]).reg
  IN  WithSeparator(r2, separator).reg

SharedRegistries == { SetupRegistry(<<".">>), SetupRegistry(<<"~">>) }

\* The arguments of the callers: a single token, a composite token, a token with an
\* unknown prefix and a text without separator; pairs and targets in the declared
\* and in the swapped order.
SharedTokens(r) ==
  { Serialize(r, User, ExampleUUID),
    SerializeMulti(r, UserPost, <<[Entity |-> User, UUID |-> ExampleUUID],
                                  [Entity |-> Post, UUID |-> NilUUID]>>).out,
    zzz \o r.separator \o AZXje,
    user \o AZXje }

SharedEntityLists == { <<User, Post>>, <<Post, User>> }

SharedArgs(r, op) ==
  CASE op = "Serialize" ->
         { [entity |-> e, uuid |-> ExampleUUID] : e \in {User, Comment} }
    [] op = "DeserializeWithEntity" ->
         { [uuidStr |-> t] : t \in SharedTokens(r) }
    [] op = "Deserialize" ->
         { [entity |-> e, uuidStr |-> t] : e \in {User, Post}, t \in SharedTokens(r) }
    [] op = "SerializeMulti" ->
         { [entity |-> e,
            pairs |-> [i \in 1..2 |-> [Entity |-> es[i], UUID |-> ExampleUUID]]] :
             e \in {User, UserPost}, es \in SharedEntityLists }
    [] op = "DeserializeMulti" ->
         { [entity |-> e, uuidStr |-> t,
            targets |-> [i \in 1..2 |-> [Entity |-> es[i], UUID |-> MaxUUID]]] :
             e \in {User, UserPost}, t \in SharedTokens(r), es \in SharedEntityLists }

ReadOps == {"Serialize", "DeserializeWithEntity", "Deserialize", "SerializeMulti",
            "DeserializeMulti"}

\* The fields of the registry a call reads, in the order in which its code reads them.
ReadsOf(op) ==
  CASE op = "Serialize" -> <<"prefixes", "separator">>
    [] op \in {"DeserializeWithEntity", "Deserialize"} -> <<"separator", "reverse">>
    [] op = "SerializeMulti" -> <<"multi", "prefixes", "separator">>
    [] op = "DeserializeMulti" -> <<"separator", "reverse", "multi">>

\* What a call returns, from the registry as the call has read it.
ResultOf(op, r, arg) ==
  CASE op = "Serialize" -> [out |-> Serialize(r, arg.entity, arg.uuid)]
    [] op = "DeserializeWithEntity" -> DeserializeWithEntity(r, arg.uuidStr)
    [] op = "Deserialize" -> Deserialize(r, arg.entity, arg.uuidStr)
    [] op = "SerializeMulti" -> SerializeMulti(r, arg.entity, arg.pairs)
    [] op = "DeserializeMulti" -> DeserializeMulti(r, arg.entity, arg.uuidStr, arg.targets)

\* Nothing read yet.
BlankView ==
  [nil |-> FALSE, prefixes |-> EmptyMap, reverse |-> EmptyMap, separator |-> <<>>,
   multi |-> EmptyMap]

\* A read that sees the default separator whatever the registry holds.
ReadField_DefaultSep(view, r, field) ==
  IF field = "separator" THEN [view EXCEPT !.separator = defaultSeparator]
  ELSE [view EXCEPT ![field] = r[field]]

\* The view after the call has read one field of the registry r.
ReadField(view, r, field) == [view EXCEPT ![field] = r[field]]

\* The call returns before its next read: a deserializing call on a format error
\* before it looks the prefix up, DeserializeMulti on any error up to the entity
\* comparison before it reads the multi map, SerializeMulti on any error before it
\* reads the prefix.
ReturnsEarly(c) ==
  /\ c.toRead # <<>>
  /\ \/ /\ Head(c.toRead) = "reverse"
        /\ Len(Split(c.arg.uuidStr, c.view.separator)) # 2
     \/ /\ c.op = "DeserializeMulti" /\ Head(c.toRead) = "multi"
        /\ LET d == decodePayload(c.view, c.arg.uuidStr)
           IN  d.err # NoErr \/ d.entity # c.arg.entity
     \/ /\ c.op = "SerializeMulti" /\ Head(c.toRead) = "prefixes"
        /\ SerializeMulti(c.view, c.arg.entity, c.arg.pairs).err # NoErr

InitShared ==
  /\ reg \in SharedRegistries
  /\ call = [c \in Callers |-> NoCall]

\* A caller enters one of the five calls.
SharedStart ==
  \E c \in Callers :
    /\ call[c] = NoCall
    /\ \E op \in ReadOps :
         \E arg \in SharedArgs(reg, op) :
           call' = [call EXCEPT ![c] = [op |-> op, arg |-> arg, view |-> BlankView,
                                        toRead |-> ReadsOf(op), returned |-> FALSE,
                                        res |-> <<>>]]
    /\ UNCHANGED reg

\* A call reads the next field.
SharedRead ==
  \E c \in Callers :
    /\ call[c] # NoCall
    /\ ~call[c].returned
    /\ call[c].toRead # <<>>
    /\ ~ReturnsEarly(call[c])
    /\ call' = [call EXCEPT ![c].view = ReadField(call[c].view, reg, Head(call[c].toRead)),
                            ![c].toRead = Tail(call[c].toRead)]
    /\ UNCHANGED reg

\* A call returns.
SharedReturn ==
  \E c \in Callers :
    /\ call[c] # NoCall
    /\ ~call[c].returned
    /\ call[c].toRead = <<>> \/ ReturnsEarly(call[c])
    /\ call' = [call EXCEPT ![c].returned = TRUE,
                            ![c].res = ResultOf(call[c].op, call[c].view, call[c].arg)]
    /\ UNCHANGED reg

\* The caller is done with the results.
SharedDiscard ==
  \E c \in Callers :
    /\ call[c] # NoCall
    /\ call[c].returned
    /\ call' = [call EXCEPT ![c] = NoCall]
    /\ UNCHANGED reg

NextShared ==
  \/ SharedStart
  \/ SharedRead
  \/ SharedReturn
  \/ SharedDiscard

SpecShared == InitShared /\ [][NextShared]_vars

(***************************************************************************)
(* What the properties below read off a call.                              *)
(***************************************************************************)
Registered(e) == ~reg.nil /\ HasKey(reg.prefixes, e)

EntitiesOf(ps) == [i \in 1..Len(ps) |-> ps[i].Entity]

UUIDsOf(ps) == [i \in 1..Len(ps) |-> ps[i].UUID]

IsDeserializeCall == call.op \in {"DeserializeWithEntity", "Deserialize", "DeserializeMulti"}

\* The positions of the token at which the current separator character stands.
SepPositions(s) == {i \in 1..Len(s) : <<s[i]>> = reg.separator}

\* For a token with exactly one separator: the text before it and the text after it.
PrefixPart(s) == SubSeq(s, 1, (CHOOSE i \in SepPositions(s) : TRUE) - 1)

PayloadPart(s) == SubSeq(s, (CHOOSE i \in SepPositions(s) : TRUE) + 1, Len(s))

\* base64url by its definition (RFC 4648): bit n of the bytes, most significant bit
\* of the first byte first, zero past the end; character k stands for bits 6k..6k+5.
BitOf(bs, n) == IF n \div 8 < Len(bs) THEN (bs[(n \div 8) + 1] \div (2 ^ (7 - (n % 8)))) % 2 ELSE 0

SextetOf(bs, k) ==
  32 * BitOf(bs, 6 * k) + 16 * BitOf(bs, 6 * k + 1) + 8 * BitOf(bs, 6 * k + 2)
  + 4 * BitOf(bs, 6 * k + 3) + 2 * BitOf(bs, 6 * k + 4) + BitOf(bs, 6 * k + 5)

\* A payload of alphabet characters only whose length is that of an unpadded
\* encoding, and the number of bytes it stands for.
IsBase64url(b) == (\A i \in 1..Len(b) : b[i] \in AlphabetChars) /\ Len(b) % 4 # 1

ByteCount(b) == (Len(b) * 6) \div 8

(***************************************************************************)
(* C1. Round trip of single tokens.                                        *)
(***************************************************************************)
\* C1, as claimed: for every entity e registered in a registry built by NewRegistry
\* and any successful AddMultiPrefix and WithSeparator calls, and every UUID u,
\* DeserializeWithEntity(Serialize(e, u)) returns (e, u) and no error, and
\* Deserialize(e, Serialize(e, u)) returns u and no error.
C1_RoundTrip_AsClaimed ==
  \A e \in EntityInputs, u \in UUIDInputs :
    (IsDeserializeCall /\ Registered(e) /\ call.uuidStr = Serialize(reg, e, u)) =>
      /\ call.op = "DeserializeWithEntity" =>
           call.err = NoErr /\ call.entity = e /\ call.uuid = u
      /\ (call.op = "Deserialize" /\ call.want = e) =>
           call.err = NoErr /\ call.uuid = u

\* C1, amended: the same round trip for every registered entity e whose prefix the
\* reverse map resolves back to e (reverse[prefixes[e]] = e), which is every
\* registered entity when no two entries given to NewRegistry share a prefix.
C1_RoundTrip ==
  \A e \in EntityInputs, u \in UUIDInputs :
    (IsDeserializeCall /\ Registered(e) /\ reg.reverse[reg.prefixes[e]] = e
       /\ call.uuidStr = Serialize(reg, e, u)) =>
      /\ call.op = "DeserializeWithEntity" =>
           call.err = NoErr /\ call.entity = e /\ call.uuid = u
      /\ (call.op = "Deserialize" /\ call.want = e) =>
           call.err = NoErr /\ call.uuid = u

\* In a registry that holds a composite and uses the separator "~", a token serialized
\* for Post has come back from Deserialize with the UUID it was made from.
C1_Witness ==
  /\ call.op = "Deserialize"
  /\ Registered(call.want)
  /\ HasKey(reg.multi, UserPost)
  /\ reg.separator = <<"~">>
  /\ call.want = Post
  /\ call.uuidStr = Serialize(reg, Post, ExampleUUID)
  /\ call.err = NoErr
  /\ call.uuid = ExampleUUID

(***************************************************************************)
(* C2. Round trip of composite tokens.                                     *)
(***************************************************************************)
\* C2: for a composite c with components (e1..eN), SerializeMulti(c, (e1,u1)..(eN,uN))
\* succeeds, and DeserializeMulti(c, that token, targets declared as (e1..eN))
\* returns no error and leaves ui in slot i, with either separator.
C2_MultiRoundTrip ==
  \A c \in EntityInputs :
    (~reg.nil /\ HasKey(reg.multi, c)) =>
      /\ (call.op = "SerializeMulti" /\ call.entity = c
            /\ EntitiesOf(call.pairs) = reg.multi[c]) =>
           call.err = NoErr
      /\ (call.op = "DeserializeMulti" /\ call.want = c
            /\ EntitiesOf(call.targets) = reg.multi[c]) =>
           \A ps \in PairListInputs :
             (EntitiesOf(ps) = reg.multi[c]
                /\ call.uuidStr = SerializeMulti(reg, c, ps).out) =>
               /\ call.err = NoErr
               /\ Len(call.slots) = Len(ps)
               /\ \A i \in 1..Len(ps) : call.slots[i].UUID = ps[i].UUID

\* A three-component token with the separator "~" has been read back into its slots.
C2_Witness ==
  /\ call.op = "DeserializeMulti"
  /\ call.want = UserPost
  /\ HasKey(reg.multi, UserPost)
  /\ Len(reg.multi[UserPost]) = 3
  /\ reg.separator = <<"~">>
  /\ call.err = NoErr
  /\ UUIDsOf(call.slots) = <<ExampleUUID, MaxUUID, NilUUID>>
  /\ UUIDsOf(call.targets) = <<MaxUUID, MaxUUID, MaxUUID>>

(***************************************************************************)
(* C3. The wire format of Serialize.                                       *)
(***************************************************************************)
\* C3: for a registered entity with prefix p, Serialize(e, u) is p, then the current
\* separator, then the 22 characters of the unpadded base64url encoding of u's 16
\* bytes in order, so len(p) + 1 + 22 characters; for the UUID
\* 0195e37b-f93f-7518-a9ac-a2be68463c7e, prefix "user" and separator "." it is
\* "user.AZXje_k_dRiprKK-aEY8fg", 27 characters.
C3_WireFormat ==
  (call.op = "Serialize" /\ Registered(call.entity)) =>
    LET p == reg.prefixes[call.entity]
        n == Len(p)
    IN  /\ Len(call.out) = n + 1 + 22
        /\ SubSeq(call.out, 1, n) = p
        /\ <<call.out[n + 1]>> = reg.separator
        /\ \A k \in 0..21 : call.out[n + 2 + k] = Alphabet[SextetOf(call.uuid, k) + 1]
        /\ (p = user /\ reg.separator = <<".">> /\ call.uuid = ExampleUUID) =>
             /\ call.out = user \o <<".">> \o AZXje
             /\ Len(call.out) = 27

\* Serialize has returned the documented token of the example.
C3_Witness ==
  /\ call.op = "Serialize"
  /\ call.entity = User
  /\ Registered(User)
  /\ reg.prefixes[User] = user
  /\ reg.separator = <<".">>
  /\ call.uuid = ExampleUUID
  /\ Len(call.out) = 27

(***************************************************************************)
(* C4. Entity mismatch.                                                    *)
(***************************************************************************)
\* C4, as claimed: for any two different registered entities A and B and any UUID u,
\* Deserialize(B, Serialize(A, u)) returns ErrEntityMismatch and the nil UUID.
C4_EntityMismatch_AsClaimed ==
  \A A \in EntityInputs, B \in EntityInputs, u \in UUIDInputs :
    (A # B /\ Registered(A) /\ Registered(B)
       /\ call.op = "Deserialize" /\ call.want = B
       /\ call.uuidStr = Serialize(reg, A, u)) =>
      call.err = ErrEntityMismatch /\ call.uuid = NilUUID

\* C4, amended: the same for any two different registered entities A and B such that
\* the reverse map does not resolve A's prefix to B (so whenever A's prefix resolves
\* back to A, as it does when no two entries given to NewRegistry share a prefix).
C4_EntityMismatch ==
  \A A \in EntityInputs, B \in EntityInputs, u \in UUIDInputs :
    (A # B /\ Registered(A) /\ Registered(B)
       /\ reg.reverse[reg.prefixes[A]] # B
       /\ call.op = "Deserialize" /\ call.want = B
       /\ call.uuidStr = Serialize(reg, A, u)) =>
      call.err = ErrEntityMismatch /\ call.uuid = NilUUID

\* A token serialized for User has been refused when Post was asked for.
C4_Witness ==
  /\ call.op = "Deserialize"
  /\ call.want = Post
  /\ Registered(User) /\ Registered(Post)
  /\ reg.reverse[reg.prefixes[User]] = User
  /\ call.uuidStr = Serialize(reg, User, ExampleUUID)
  /\ call.err = ErrEntityMismatch
  /\ call.uuid = NilUUID

(***************************************************************************)
(* C5. Format errors.                                                      *)
(***************************************************************************)
\* C5: a token in which the current separator does not occur exactly once (the empty
\* string, no separator, more than one) makes DeserializeWithEntity, Deserialize and
\* DeserializeMulti fail with ErrInvalidPrefixedUUIDFormat, whatever else it holds.
C5_FormatErrors ==
  (IsDeserializeCall /\ Cardinality(SepPositions(call.uuidStr)) # 1) =>
    call.err = ErrInvalidPrefixedUUIDFormat

\* DeserializeMulti has refused, as badly formed, a token that holds a registered
\* prefix and the separator twice.
C5_Witness ==
  /\ call.op = "DeserializeMulti"
  /\ Cardinality(SepPositions(call.uuidStr)) = 2
  /\ HasKey(reg.reverse, SubSeq(call.uuidStr, 1, 2))
  /\ call.err = ErrInvalidPrefixedUUIDFormat

(***************************************************************************)
(* C6. Unknown prefix.                                                     *)
(***************************************************************************)
\* C6: a token with exactly one separator whose text before the separator is not a
\* key of the reverse map makes the three Deserialize calls fail with
\* ErrUnknownPrefix, whatever the payload is.
C6_UnknownPrefix ==
  (IsDeserializeCall /\ Cardinality(SepPositions(call.uuidStr)) = 1
     /\ ~HasKey(reg.reverse, PrefixPart(call.uuidStr))) =>
    call.err = ErrUnknownPrefix

\* A token with an unregistered prefix and a payload that is not base64url has been
\* refused for its prefix.
C6_Witness ==
  /\ call.op = "DeserializeWithEntity"
  /\ Cardinality(SepPositions(call.uuidStr)) = 1
  /\ PrefixPart(call.uuidStr) = zzz
  /\ ~HasKey(reg.reverse, zzz)
  /\ \E i \in 1..Len(call.uuidStr) : call.uuidStr[i] = "!"
  /\ call.err = ErrUnknownPrefix

(***************************************************************************)
(* C7. Bad base64.                                                         *)
(***************************************************************************)
\* C7: a token made of a registered prefix, one separator and a payload that holds at
\* least one character outside the base64url alphabet A-Za-z0-9-_ makes the three
\* Deserialize calls fail with ErrInvalidUUIDBadBase64.
C7_BadBase64_AsClaimed ==
  (IsDeserializeCall /\ Cardinality(SepPositions(call.uuidStr)) = 1
     /\ HasKey(reg.reverse, PrefixPart(call.uuidStr))
     /\ \E i \in 1..Len(PayloadPart(call.uuidStr)) :
          PayloadPart(call.uuidStr)[i] \notin AlphabetChars) =>
    call.err = ErrInvalidUUIDBadBase64

(***************************************************************************)
(* C8. Wrong payload length.                                               *)
(***************************************************************************)
\* C8: a token with a registered prefix whose payload is base64url for a number of
\* bytes other than 16 makes DeserializeWithEntity and Deserialize fail with
\* ErrInvalidUUIDFormat; DeserializeMulti, called for the token's composite entity
\* with targets of the declared count and order, fails with ErrInvalidUUIDFormat
\* whenever that number is not 16 times the number of components.
C8_WrongPayloadLength ==
  (IsDeserializeCall /\ Cardinality(SepPositions(call.uuidStr)) = 1
     /\ HasKey(reg.reverse, PrefixPart(call.uuidStr))
     /\ IsBase64url(PayloadPart(call.uuidStr))) =>
    LET e == reg.reverse[PrefixPart(call.uuidStr)]
        n == ByteCount(PayloadPart(call.uuidStr))
    IN  /\ (call.op \in {"DeserializeWithEntity", "Deserialize"} /\ n # 16) =>
             call.err = ErrInvalidUUIDFormat
        /\ (call.op = "DeserializeMulti" /\ call.want = e /\ HasKey(reg.multi, e)
              /\ EntitiesOf(call.targets) = reg.multi[e]
              /\ n # 16 * Len(reg.multi[e])) =>
             call.err = ErrInvalidUUIDFormat

\* DeserializeMulti, asked for a two-component composite with the right targets, has
\* refused a token of that composite whose payload is one UUID long.
C8_Witness ==
  /\ call.op = "DeserializeMulti"
  /\ call.want = UserPost
  /\ HasKey(reg.multi, UserPost)
  /\ EntitiesOf(call.targets) = reg.multi[UserPost]
  /\ Len(call.targets) = 2
  /\ call.uuidStr = up \o reg.separator \o AZXje
  /\ call.err = ErrInvalidUUIDFormat

(***************************************************************************)
(* C9. The values returned with an error.                                  *)
(***************************************************************************)
\* C9: whenever DeserializeWithEntity returns an error it returns NullEntity and the
\* nil UUID, and whenever Deserialize returns an error it returns the nil UUID.
C9_ErrorResults ==
  /\ (call.op = "DeserializeWithEntity" /\ call.err # NoErr) =>
       call.entity = NullEntity /\ call.uuid = NilUUID
  /\ (call.op = "Deserialize" /\ call.err # NoErr) => call.uuid = NilUUID

\* DeserializeWithEntity has failed on the UUID length after it had resolved the
\* prefix, and Deserialize's failure cases are reached as well (C4_Witness).
C9_Witness ==
  /\ call.op = "DeserializeWithEntity"
  /\ Cardinality(SepPositions(call.uuidStr)) = 1
  /\ HasKey(reg.reverse, PrefixPart(call.uuidStr))
  /\ call.err = ErrInvalidUUIDFormat
  /\ call.entity = NullEntity
  /\ call.uuid = NilUUID

(***************************************************************************)
(* C10. Multi arity.                                                       *)
(***************************************************************************)
\* C10: for a composite with N components, SerializeMulti with a number of pairs other
\* than N fails with ErrUUIDCountMismatch and returns "", and DeserializeMulti on a
\* valid token of that composite with a number of targets other than N fails with
\* ErrUUIDCountMismatch.
C10_MultiArity ==
  /\ (call.op = "SerializeMulti" /\ HasKey(reg.multi, call.entity)
        /\ Len(call.pairs) # Len(reg.multi[call.entity])) =>
       call.err = ErrUUIDCountMismatch /\ call.out = <<>>
  /\ (call.op = "DeserializeMulti" /\ HasKey(reg.multi, call.want)
        /\ Len(call.targets) # Len(reg.multi[call.want])
        /\ \E ps \in PairListInputs :
             /\ EntitiesOf(ps) = reg.multi[call.want]
             /\ call.uuidStr = SerializeMulti(reg, call.want, ps).out) =>
       call.err = ErrUUIDCountMismatch

\* SerializeMulti has refused one pair for a composite of two, and so one pair fewer
\* than declared.
C10_Witness ==
  /\ call.op = "SerializeMulti"
  /\ HasKey(reg.multi, call.entity)
  /\ Len(reg.multi[call.entity]) = 2
  /\ Len(call.pairs) = 1
  /\ call.pairs[1].Entity = reg.multi[call.entity][1]
  /\ call.err = ErrUUIDCountMismatch
  /\ call.out = <<>>

(***************************************************************************)
(* C11. Multi order.                                                       *)
(***************************************************************************)
\* A token that SerializeMulti produces for the composite c from pairs declared in
\* c's order.
IsMultiTokenOf(c, s) ==
  \E ps \in PairListInputs :
    /\ EntitiesOf(ps) = reg.multi[c]
    /\ s = SerializeMulti(reg, c, ps).out

\* C11: entity matching is by position: for a composite with components (e1..eN),
\* SerializeMulti with N pairs, and DeserializeMulti on a valid token of the
\* composite with N targets, fail with ErrEntityOrderMismatch whenever the entity
\* given at some position i differs from ei, a permutation of the declared entities
\* included.
C11_MultiOrder ==
  /\ (call.op = "SerializeMulti" /\ HasKey(reg.multi, call.entity)
        /\ Len(call.pairs) = Len(reg.multi[call.entity])
        /\ \E i \in 1..Len(call.pairs) : call.pairs[i].Entity # reg.multi[call.entity][i]) =>
       call.err = ErrEntityOrderMismatch
  /\ (call.op = "DeserializeMulti" /\ HasKey(reg.multi, call.want)
        /\ Len(call.targets) = Len(reg.multi[call.want])
        /\ (\E i \in 1..Len(call.targets) :
              call.targets[i].Entity # reg.multi[call.want][i])
        /\ IsMultiTokenOf(call.want, call.uuidStr)) =>
       call.err = ErrEntityOrderMismatch

\* DeserializeMulti has refused targets declared as (Post, User) for a valid token of
\* a composite declared as (User, Post).
C11_Witness ==
  /\ call.op = "DeserializeMulti"
  /\ HasKey(reg.multi, call.want)
  /\ reg.multi[call.want] = <<User, Post>>
  /\ EntitiesOf(call.targets) = <<Post, User>>
  /\ IsMultiTokenOf(call.want, call.uuidStr)
  /\ call.err = ErrEntityOrderMismatch

(***************************************************************************)
(* C12. Multi misuse.                                                      *)
(***************************************************************************)
\* C12, as claimed: SerializeMulti called with an entity that has no entry in the
\* multi map (regular or unregistered) fails with ErrNotMultiEntity whatever the
\* pairs; DeserializeMulti called with a regular registered entity and a token that
\* Serialize produced for that entity fails with ErrNotMultiEntity.
C12_MultiMisuse_AsClaimed ==
  /\ (call.op = "SerializeMulti" /\ ~HasKey(reg.multi, call.entity)) =>
       call.err = ErrNotMultiEntity
  /\ (call.op = "DeserializeMulti" /\ Registered(call.want)
        /\ ~HasKey(reg.multi, call.want)
        /\ \E u \in UUIDInputs : call.uuidStr = Serialize(reg, call.want, u)) =>
       call.err = ErrNotMultiEntity

\* C12, amended: the same, the DeserializeMulti half for a regular registered entity
\* whose prefix the reverse map resolves back to it (reverse[prefixes[e]] = e).
C12_MultiMisuse ==
  /\ (call.op = "SerializeMulti" /\ ~HasKey(reg.multi, call.entity)) =>
       call.err = ErrNotMultiEntity
  /\ (call.op = "DeserializeMulti" /\ Registered(call.want)
        /\ ~HasKey(reg.multi, call.want)
        /\ reg.reverse[reg.prefixes[call.want]] = call.want
        /\ \E u \in UUIDInputs : call.uuidStr = Serialize(reg, call.want, u)) =>
       call.err = ErrNotMultiEntity

\* DeserializeMulti has refused, as not a multi type, a token serialized for the
\* regular entity User, in a registry that does hold a composite.
C12_Witness ==
  /\ call.op = "DeserializeMulti"
  /\ call.want = User
  /\ Registered(User)
  /\ ~HasKey(reg.multi, User)
  /\ HasKey(reg.multi, UserPost)
  /\ reg.reverse[reg.prefixes[User]] = User
  /\ call.uuidStr = Serialize(reg, User, ExampleUUID)
  /\ Len(call.targets) = 2
  /\ call.err = ErrNotMultiEntity

(***************************************************************************)
(* C13. The order of the checks of DeserializeMulti.                       *)
(***************************************************************************)
\* The error kinds in the order of the checks.
CheckKinds ==
  << ErrInvalidPrefixedUUIDFormat, ErrUnknownPrefix, ErrInvalidUUIDBadBase64,
     ErrEntityMismatch, ErrNotMultiEntity, ErrUUIDCountMismatch,
     ErrEntityOrderMismatch, ErrInvalidUUIDFormat >>

\* Check k would fail for the DeserializeMulti call in `call`, whatever the checks
\* before it say, as far as the check can be put to the call at all: the prefix and
\* the payload are those of a token with one separator, the components those of the
\* requested entity, and positions are compared as far as both lists go.
CheckFails(k) ==
  LET s == call.uuidStr
      oneSep == Cardinality(SepPositions(s)) = 1
      known == oneSep /\ HasKey(reg.reverse, PrefixPart(s))
      multi == HasKey(reg.multi, call.want)
      shorter == IF Len(call.targets) < Len(reg.multi[call.want])
                 THEN Len(call.targets) ELSE Len(reg.multi[call.want])
  IN  CASE k = 1 -> ~oneSep
        [] k = 2 -> oneSep /\ ~known
        [] k = 3 -> oneSep /\ DecodeFails(PayloadPart(s))
        [] k = 4 -> known /\ reg.reverse[PrefixPart(s)] # call.want
        [] k = 5 -> ~multi
        [] k = 6 -> multi /\ Len(call.targets) # Len(reg.multi[call.want])
        [] k = 7 -> multi /\ \E i \in 1..shorter :
                               call.targets[i].Entity # reg.multi[call.want][i]
        [] k = 8 -> /\ multi /\ oneSep /\ ~DecodeFails(PayloadPart(s))
                    /\ Len(DecodeBytes(PayloadPart(s))) # 16 * Len(reg.multi[call.want])

\* C13: when several checks of a DeserializeMulti call would fail, the error is that
\* of the earliest failing one in the order format, unknown prefix, base64, entity
\* mismatch, not-multi, count mismatch, order mismatch, payload length; a later kind
\* is never reported while an earlier one applies.
C13_CheckOrder ==
  call.op = "DeserializeMulti" =>
    \A k \in 1..8 :
      (CheckFails(k) /\ \A j \in 1..(k - 1) : ~CheckFails(j)) => call.err = CheckKinds[k]

\* The count, the order and the payload length are all wrong for a token of a
\* three-component composite, and the count mismatch has been reported.
C13_Witness ==
  /\ call.op = "DeserializeMulti"
  /\ \A j \in 1..5 : ~CheckFails(j)
  /\ CheckFails(6) /\ CheckFails(7) /\ CheckFails(8)
  /\ Len(reg.multi[call.want]) = 3
  /\ call.err = ErrUUIDCountMismatch

(***************************************************************************)
(* C14. The separator over a sequence of calls.                            *)
(***************************************************************************)
\* What C14 says of a step from (reg, call) to (reg', call'), with the round trip
\* asked of the entities e for which roundTrips(e) holds:
\*  - a successful WithSeparator(s) leaves s as the separator, and the separator
\*    changes in no other step, so it is that of the last successful WithSeparator
\*    (or "." if there was none) however many other calls followed;
\*  - Serialize and a successful SerializeMulti then put that separator, once,
\*    between the prefix and the payload;
\*  - while it is "~", tokens serialized with it come back from Deserialize and
\*    DeserializeWithEntity with their entity and UUID, and a token that Serialize
\*    produced while the separator was "." is rejected by both with
\*    ErrUnknownPrefix or ErrInvalidPrefixedUUIDFormat.
C14_Step(roundTrips(_)) ==
  /\ (call'.op = "WithSeparator" /\ call'.err = NoErr) => reg'.separator = call'.separator
  /\ (~reg.nil /\ reg'.separator # reg.separator) =>
       call'.op = "WithSeparator" /\ call'.err = NoErr
  /\ (call'.op = "Serialize" \/ (call'.op = "SerializeMulti" /\ call'.err = NoErr)) =>
       LET n == Len(PrefixOf(reg', call'.entity))
       IN  /\ <<call'.out[n + 1]>> = reg'.separator
           /\ \A i \in 1..Len(call'.out) : call'.out[i] \in {".", "~"} => i = n + 1
  /\ (call'.op \in {"Deserialize", "DeserializeWithEntity"} /\ reg'.separator = <<"~">>) =>
       \A e \in EntityInputs :
         /\ (HasKey(reg'.prefixes, e) /\ roundTrips(e)) =>
              \A u \in UUIDInputs :
                call'.uuidStr = Serialize(reg', e, u) =>
                  /\ call'.op = "DeserializeWithEntity" =>
                       call'.err = NoErr /\ call'.entity = e /\ call'.uuid = u
                  /\ (call'.op = "Deserialize" /\ call'.want = e) =>
                       call'.err = NoErr /\ call'.uuid = u
         /\ \A u \in UUIDInputs :
              call'.uuidStr
                = Serialize([reg' EXCEPT !.separator = OtherSeparator(reg'.separator)], e, u) =>
                call'.err \in {ErrUnknownPrefix, ErrInvalidPrefixedUUIDFormat}

AnyRegistered(e) == TRUE

ResolvesBack(e) == reg'.reverse[reg'.prefixes[e]] = e

\* C14, as claimed: after a successful WithSeparator("~"), Serialize and
\* SerializeMulti put "~" between prefix and payload and tokens with "~" round-trip;
\* every token Serialize produced while the separator was "." is then rejected by
\* Deserialize and DeserializeWithEntity with ErrUnknownPrefix or
\* ErrInvalidPrefixedUUIDFormat; a later successful WithSeparator(".") makes
\* Serialize produce "." tokens again. The round trip is asked of every registered
\* entity.
C14_Separator_AsClaimed == [][C14_Step(AnyRegistered)]_vars

\* C14, amended: the same, with the round trip asked of the registered entities whose
\* prefix the reverse map resolves back to them (reverse[prefixes[e]] = e).
C14_Separator == [][C14_Step(ResolvesBack)]_vars

\* With the separator "~" in use, Deserialize has rejected the token that Serialize
\* produced for the registered entity Post while the separator was ".".
C14_Witness ==
  /\ call.op = "Deserialize"
  /\ reg.separator = <<"~">>
  /\ Registered(Post)
  /\ call.want = Post
  /\ call.uuidStr = reg.prefixes[Post] \o <<".">> \o AZXje
  /\ call.uuidStr = Serialize([reg EXCEPT !.separator = <<".">>], Post, ExampleUUID)
  /\ call.err = ErrInvalidPrefixedUUIDFormat

(***************************************************************************)
(* C15. WithSeparator.                                                     *)
(***************************************************************************)
\* C15: WithSeparator(sep) succeeds exactly when sep is the one-character string "."
\* or "~"; on success it sets the separator to sep and returns the same Registry; on
\* failure it returns an error that is ErrInvalidSeparator and leaves the separator
\* and the forward, reverse and multi maps unchanged.
C15_Step ==
  call'.op = "WithSeparator" =>
    /\ call'.err = NoErr <=> call'.separator \in {<<".">>, <<"~">>}
    /\ call'.err = NoErr =>
         /\ reg'.separator = call'.separator
         /\ call'.ret = reg'
    /\ call'.err # NoErr =>
         /\ call'.err = ErrInvalidSeparator
         /\ reg'.separator = reg.separator
         /\ reg'.prefixes = reg.prefixes
         /\ reg'.reverse = reg.reverse
         /\ reg'.multi = reg.multi

C15_WithSeparator == [][C15_Step]_vars

\* WithSeparator(":") has been refused on a registry that holds a composite and whose
\* separator an earlier call had set to "~", and "~" is still the separator.
C15_Witness ==
  /\ call.op = "WithSeparator"
  /\ call.separator = <<":">>
  /\ call.err = ErrInvalidSeparator
  /\ call.ret = NilRegistry
  /\ reg.separator = <<"~">>
  /\ HasKey(reg.multi, UserPost)

(***************************************************************************)
(* C16. NewRegistry.                                                       *)
(***************************************************************************)
\* Entry i of the list given to NewRegistry is offending: its entity is NullEntity,
\* or its prefix is empty or holds a character other than a-z, 0-9, "_" and "-".
Offending(ps, i) ==
  \/ ps[i].Entity = NullEntity
  \/ ps[i].Prefix = <<>>
  \/ \E k \in 1..Len(ps[i].Prefix) : ps[i].Prefix[k] \notin PrefixChars

\* What C16 says of the error of a NewRegistry call: there is one, and no registry,
\* exactly when some entry is offending, and it is that of the first offending entry,
\* the NullEntity error if that entry's entity is NullEntity.
C16_Errors ==
  LET ps == call.prefixes
      bad == {i \in 1..Len(ps) : Offending(ps, i)}
  IN  /\ call.err # NoErr <=> bad # {}
      /\ reg.nil <=> bad # {}
      /\ bad # {} =>
           LET first == CHOOSE i \in bad : \A j \in bad : i <= j
           IN  call.err = IF ps[first].Entity = NullEntity THEN ErrNullEntityMsg
                          ELSE ErrBadPrefixMsg
      /\ bad = {} => reg.separator = <<".">>

\* C16, as claimed: NewRegistry(prefixes) returns an error and nil exactly when some
\* entry has Entity == NullEntity or a Prefix that does not match ^[a-z0-9_-]+$; the
\* error is that of the first offending entry, the NullEntity check first inside one
\* entry; otherwise it returns a registry with separator "." whose forward map holds
\* entity -> prefix and whose reverse map holds prefix -> entity for the listed
\* entries.
C16_NewRegistry_AsClaimed ==
  call.op = "NewRegistry" =>
    /\ C16_Errors
    /\ call.err = NoErr =>
         \A i \in 1..Len(call.prefixes) :
           /\ HasKey(reg.prefixes, call.prefixes[i].Entity)
           /\ reg.prefixes[call.prefixes[i].Entity] = call.prefixes[i].Prefix
           /\ HasKey(reg.reverse, call.prefixes[i].Prefix)
           /\ reg.reverse[call.prefixes[i].Prefix] = call.prefixes[i].Entity

\* C16, amended: the same, with the maps of the registry returned holding, for every
\* listed entity, the prefix of the last entry that lists it and, for every listed
\* prefix, the entity of the last entry that lists it, and nothing else (an empty
\* multi map included).
C16_NewRegistry ==
  call.op = "NewRegistry" =>
    /\ C16_Errors
    /\ call.err = NoErr =>
         LET ps == call.prefixes
             lastWith(P(_)) == CHOOSE i \in 1..Len(ps) :
                                 P(ps[i]) /\ \A j \in (i + 1)..Len(ps) : ~P(ps[j])
         IN  /\ DOMAIN reg.prefixes = {ps[i].Entity : i \in 1..Len(ps)}
             /\ DOMAIN reg.reverse = {ps[i].Prefix : i \in 1..Len(ps)}
             /\ \A e \in DOMAIN reg.prefixes :
                  LET HasEntity(x) == x.Entity = e
                  IN  reg.prefixes[e] = ps[lastWith(HasEntity)].Prefix
             /\ \A p \in DOMAIN reg.reverse :
                  LET HasPrefix(x) == x.Prefix = p
                  IN  reg.reverse[p] = ps[lastWith(HasPrefix)].Entity
             /\ reg.multi = EmptyMap

\* NewRegistry has returned nil and the NullEntity error for a list whose first entry
\* is good and whose second has both a NullEntity and an uppercase prefix.
C16_Witness ==
  /\ call.op = "NewRegistry"
  /\ Len(call.prefixes) = 2
  /\ ~Offending(call.prefixes, 1)
  /\ call.prefixes[2] = [Entity |-> NullEntity, Prefix |-> Test]
  /\ call.err = ErrNullEntityMsg
  /\ reg.nil

(***************************************************************************)
(* C17. The validation of AddMultiPrefix.                                  *)
(***************************************************************************)
\* The errors of AddMultiPrefix in the order of its checks.
AddMultiPrefixErrors ==
  << ErrNullEntityMsg, ErrBadPrefixMsg, ErrEntityRegisteredMsg, ErrPrefixRegisteredMsg,
     ErrTooFewComponentsMsg, ErrComponentNotRegisteredMsg >>

\* Condition k of C17 holds of info and the registry r the call is made on.
Rejects(k, r, info) ==
  CASE k = 1 -> info.Entity = NullEntity
    [] k = 2 -> \/ info.Prefix = <<>>
                \/ \E c \in 1..Len(info.Prefix) : info.Prefix[c] \notin PrefixChars
    [] k = 3 -> info.Entity \in DOMAIN r.prefixes
    [] k = 4 -> info.Prefix \in DOMAIN r.reverse
    [] k = 5 -> Len(info.Entities) < 2
    [] k = 6 -> \E i \in 1..Len(info.Entities) : info.Entities[i] \notin DOMAIN r.prefixes

\* C17: AddMultiPrefix(info) returns an error and leaves the forward, reverse and
\* multi maps and the separator unchanged whenever one of these holds, the first that
\* applies determining the error: the entity is NullEntity; the prefix does not match
\* ^[a-z0-9_-]+$; the entity is a key of the forward map; the prefix is a key of the
\* reverse map; there are fewer than 2 components; a component is not a key of the
\* forward map.
C17_Step ==
  call'.op = "AddMultiPrefix" =>
    \A k \in 1..6 :
      (Rejects(k, reg, call'.info) /\ \A j \in 1..(k - 1) : ~Rejects(j, reg, call'.info)) =>
        /\ call'.err = AddMultiPrefixErrors[k]
        /\ call'.err # NoErr
        /\ reg'.prefixes = reg.prefixes
        /\ reg'.reverse = reg.reverse
        /\ reg'.multi = reg.multi
        /\ reg'.separator = reg.separator

C17_AddMultiPrefixErrors == [][C17_Step]_vars

\* AddMultiPrefix has refused, for its entity, an info whose entity and prefix are
\* both registered and which lists one component, on a registry with separator "~".
C17_Witness ==
  /\ call.op = "AddMultiPrefix"
  /\ ~Rejects(1, reg, call.info) /\ ~Rejects(2, reg, call.info)
  /\ Rejects(3, reg, call.info) /\ Rejects(4, reg, call.info)
  /\ Rejects(5, reg, call.info)
  /\ reg.multi = EmptyMap
  /\ reg.separator = <<"~">>
  /\ call.err = ErrEntityRegisteredMsg

(***************************************************************************)
(* C18. A successful AddMultiPrefix.                                       *)
(***************************************************************************)
\* m2 is m with the one new entry k -> v added and nothing else changed.
AddsExactly(m, m2, k, v) ==
  /\ k \notin DOMAIN m
  /\ DOMAIN m2 = DOMAIN m \cup {k}
  /\ m2[k] = v
  /\ \A x \in DOMAIN m : m2[x] = m[x]

\* C18: a successful AddMultiPrefix(info) adds exactly info.Entity -> info.Prefix to
\* the forward map, info.Prefix -> info.Entity to the reverse map and
\* info.Entity -> info.Entities, in the same order, to the multi map, and changes
\* nothing else: the separator is unchanged, and Serialize, Deserialize,
\* SerializeMulti and DeserializeMulti return what they returned before for every
\* previously registered entity and every token that parsed before.
C18_Step ==
  (call'.op = "AddMultiPrefix" /\ call'.err = NoErr) =>
    LET info == call'.info
        before == DOMAIN reg.prefixes
    IN  /\ AddsExactly(reg.prefixes, reg'.prefixes, info.Entity, info.Prefix)
        /\ AddsExactly(reg.reverse, reg'.reverse, info.Prefix, info.Entity)
        /\ AddsExactly(reg.multi, reg'.multi, info.Entity, info.Entities)
        /\ reg'.separator = reg.separator
        /\ \A e \in before :
             /\ \A u \in UUIDInputs : Serialize(reg', e, u) = Serialize(reg, e, u)
             /\ \A ps \in PairListInputs :
                  SerializeMulti(reg', e, ps) = SerializeMulti(reg, e, ps)
        /\ \A t \in TokenInputs(reg) :
             decodePayload(reg, t).err = NoErr =>
               \A e \in before :
                 /\ Deserialize(reg', e, t) = Deserialize(reg, e, t)
                 /\ \A targets \in TargetListInputs :
                      DeserializeMulti(reg', e, t, targets)
                        = DeserializeMulti(reg, e, t, targets)

C18_AddMultiPrefixFrame == [][C18_Step]_vars

\* A second composite has been added to a registry that held one, whose separator
\* had been set to "~".
C18_Witness ==
  /\ call.op = "AddMultiPrefix"
  /\ call.err = NoErr
  /\ call.info.Entity = UserPostComment
  /\ HasKey(reg.multi, UserPost)
  /\ HasKey(reg.multi, UserPostComment)
  /\ reg.multi[UserPostComment] = call.info.Entities
  /\ reg.separator = <<"~">>

(***************************************************************************)
(* C19. Serialize for an entity that is not registered.                    *)
(***************************************************************************)
\* C19: Serialize never fails: for an entity that is not a key of the forward map,
\* NullEntity included, it returns the empty prefix, the separator and the 22
\* characters of the payload, and signals no error; DeserializeWithEntity then
\* rejects that token with ErrUnknownPrefix.
C19_SerializeUnregistered ==
  /\ (call.op = "Serialize" /\ ~Registered(call.entity)) =>
       /\ DOMAIN call = {"op", "entity", "uuid", "out"}
       /\ Len(call.out) = 23
       /\ <<call.out[1]>> = reg.separator
       /\ \A k \in 0..21 : call.out[k + 2] = Alphabet[SextetOf(call.uuid, k) + 1]
  /\ call.op = "DeserializeWithEntity" =>
       \A e \in EntityInputs :
         ~Registered(e) =>
           \A u \in UUIDInputs :
             call.uuidStr = Serialize(reg, e, u) =>
               call.err = ErrUnknownPrefix /\ call.entity = NullEntity

\* DeserializeWithEntity has rejected, for its prefix, what Serialize returns for
\* NullEntity in a registry that holds entities and uses the separator "~".
C19_Witness ==
  /\ call.op = "DeserializeWithEntity"
  /\ Registered(User)
  /\ reg.separator = <<"~">>
  /\ call.uuidStr = Serialize(reg, NullEntity, ExampleUUID)
  /\ call.uuidStr = <<"~">> \o AZXje
  /\ call.err = ErrUnknownPrefix

(***************************************************************************)
(* C20. Shared read use.                                                   *)
(***************************************************************************)
\* C20: Serialize, Deserialize, DeserializeWithEntity, SerializeMulti and
\* DeserializeMulti never change the forward map, the reverse map, the multi map or
\* the separator, on success or on error; so, once the setup has finished, in any
\* interleaving of these calls by concurrent callers every call returns what it
\* returns when it runs alone on the same registry.
C20_Step ==
  /\ reg'.prefixes = reg.prefixes
  /\ reg'.reverse = reg.reverse
  /\ reg'.multi = reg.multi
  /\ reg'.separator = reg.separator
  /\ \A c \in Callers :
       (call'[c] # NoCall /\ call'[c].returned) =>
         call'[c].res = ResultOf(call'[c].op, reg', call'[c].arg)

IsPrefixText(p) == p # <<>> /\ \A k \in 1..Len(p) : p[k] \in PrefixChars

\* NullEntity is no key of the forward map and no value of the reverse map, every
\* prefix stored in either map matches the pattern, the separator is "." or "~".
WellFormed(r) ==
  /\ NullEntity \notin DOMAIN r.prefixes
  /\ \A p \in DOMAIN r.reverse : r.reverse[p] # NullEntity
  /\ \A e \in DOMAIN r.prefixes : IsPrefixText(r.prefixes[e])
  /\ \A p \in DOMAIN r.reverse : IsPrefixText(p)
  /\ r.separator \in {<<".">>, <<"~">>}

\* C21: in every state reached by NewRegistry and any sequence of AddMultiPrefix and
\* WithSeparator calls, successful or failing, the registry is well formed as above,
\* and its separator is "." until the first successful WithSeparator: "." when
\* NewRegistry returns it, and changed by no step but a successful WithSeparator.
C21_Step ==
  /\ ~reg'.nil => WellFormed(reg')
  /\ (call'.op = "NewRegistry" /\ call'.err = NoErr) => reg'.separator = <<".">>
  /\ (~reg.nil /\ reg'.separator # reg.separator) =>
       call'.op = "WithSeparator" /\ call'.err = NoErr

C21_WellFormed == [][C21_Step]_vars

\* An AddMultiPrefix for NullEntity has failed on a registry that holds two composites
\* and whose separator is "~".
C21_Witness ==
  /\ call.op = "AddMultiPrefix"
  /\ call.info.Entity = NullEntity
  /\ call.err # NoErr
  /\ HasKey(reg.multi, UserPost)
  /\ HasKey(reg.multi, UserPostComment)
  /\ reg.separator = <<"~">>
  /\ WellFormed(reg)

(***************************************************************************)
(* C22. Composites.                                                        *)
(***************************************************************************)
\* The composites among the components of the composite c.
CompositesIn(r, c) == {d \in DOMAIN r.multi : \E i \in 1..Len(r.multi[c]) : r.multi[c][i] = d}

RECURSIVE CompositesBelow(_, _, _)
\* The composites reached from c by following components at most n times.
CompositesBelow(r, c, n) ==
  IF n = 0 THEN {}
  ELSE CompositesIn(r, c) \cup UNION {CompositesBelow(r, d, n - 1) : d \in CompositesIn(r, c)}

\* C22: in every reachable registry every entity of the multi map is a key of the
\* forward map and has at least 2 components, and each component was a key of the
\* forward map before the composite was added; so no composite lists itself and the
\* component relation between composites has no cycle.
C22_Step ==
  /\ ~reg'.nil =>
       \A c \in DOMAIN reg'.multi :
         /\ c \in DOMAIN reg'.prefixes
         /\ Len(reg'.multi[c]) >= 2
         /\ \A i \in 1..Len(reg'.multi[c]) :
              /\ reg'.multi[c][i] \in DOMAIN reg'.prefixes
              /\ reg'.multi[c][i] # c
         /\ c \notin CompositesBelow(reg', c, Cardinality(DOMAIN reg'.multi))
  /\ (~reg.nil /\ ~reg'.nil) =>
       \A c \in (DOMAIN reg'.multi) \ (DOMAIN reg.multi) :
         \A i \in 1..Len(reg'.multi[c]) : reg'.multi[c][i] \in DOMAIN reg.prefixes

C22_Composites == [][C22_Step]_vars

\* A composite that lists another composite has been added, and a later AddMultiPrefix
\* has failed.
C22_Witness ==
  /\ call.op = "AddMultiPrefix"
  /\ call.err # NoErr
  /\ HasKey(reg.multi, UserPost)
  /\ HasKey(reg.multi, UserPostComment)
  /\ \/ UserPost \in CompositesIn(reg, UserPostComment)
     \/ UserPostComment \in CompositesIn(reg, UserPost)
  /\ call.info.Entities \in {<<User, UserPost>>, <<User, UserPostComment>>}

(***************************************************************************)
(* C23. ErrEntityMismatch from Deserialize.                                *)
(***************************************************************************)
\* The token of the call has one separator and a registered prefix that belongs
\* to another entity than the requested one.
OtherEntityToken ==
  /\ Cardinality(SepPositions(call.uuidStr)) = 1
  /\ HasKey(reg.reverse, PrefixPart(call.uuidStr))
  /\ reg.reverse[PrefixPart(call.uuidStr)] # call.want

\* C23: Deserialize(expected, token) returns ErrEntityMismatch only when
\* DeserializeWithEntity(token) succeeds with an entity other than expected: for a
\* token whose registered prefix belongs to another entity and whose payload the
\* base64 decoder refuses, or decodes to a number of bytes other than 16,
\* Deserialize returns ErrInvalidUUIDBadBase64 or ErrInvalidUUIDFormat, not
\* ErrEntityMismatch; DeserializeMulti returns ErrEntityMismatch for such a token
\* whatever the length of the decoded payload.
C23_MismatchLast ==
  /\ call.op = "Deserialize" =>
       LET d == DeserializeWithEntity(reg, call.uuidStr)
           payload == PayloadPart(call.uuidStr)
       IN  /\ call.err = ErrEntityMismatch => (d.err = NoErr /\ d.entity # call.want)
           /\ (OtherEntityToken /\ DecodeFails(payload)) =>
                call.err = ErrInvalidUUIDBadBase64
           /\ (OtherEntityToken /\ ~DecodeFails(payload) /\ Len(DecodeBytes(payload)) # 16) =>
                call.err = ErrInvalidUUIDFormat
  /\ call.op = "DeserializeMulti" =>
       ((OtherEntityToken /\ ~DecodeFails(PayloadPart(call.uuidStr))) =>
          call.err = ErrEntityMismatch)

\* Deserialize has refused a token of another entity for the length of its payload.
C23_Witness ==
  /\ call.op = "Deserialize"
  /\ OtherEntityToken
  /\ ~DecodeFails(PayloadPart(call.uuidStr))
  /\ Len(DecodeBytes(PayloadPart(call.uuidStr))) = 32
  /\ call.err = ErrInvalidUUIDFormat

(***************************************************************************)
(* C24. The forward and the reverse map.                                   *)
(***************************************************************************)
\* reverse[p] = e exactly when forward[e] = p.
Inverses(r) ==
  /\ \A p \in DOMAIN r.reverse :
       HasKey(r.prefixes, r.reverse[p]) /\ r.prefixes[r.reverse[p]] = p
  /\ \A e \in DOMAIN r.prefixes :
       HasKey(r.reverse, r.prefixes[e]) /\ r.reverse[r.prefixes[e]] = e

\* No entity and no prefix comes twice in the list.
DistinctInfos(ps) ==
  \A i, j \in 1..Len(ps) :
    i # j => (ps[i].Entity # ps[j].Entity /\ ps[i].Prefix # ps[j].Prefix)

\* C24 as stated: in every registry reachable by a successful NewRegistry followed
\* by any sequence of AddMultiPrefix and WithSeparator calls, the forward and the
\* reverse map are inverses of each other.
C24_Inverses_AsClaimed ==
  ~reg.nil => Inverses(reg)

C24_Step ==
  /\ (call'.op = "NewRegistry" /\ call'.err = NoErr /\ DistinctInfos(call'.prefixes)) =>
       Inverses(reg')
  /\ (call'.op \in {"AddMultiPrefix", "WithSeparator"} /\ Inverses(reg)) =>
       Inverses(reg')

\* C24: a successful NewRegistry whose list names no entity and no prefix twice
\* returns a registry whose forward and reverse maps are inverses of each other, and
\* no AddMultiPrefix or WithSeparator call, failed or not, ends that: reverse[p] = e
\* exactly when forward[e] = p. A list with a repeated prefix or entity is accepted
\* too, and the maps it leaves are not inverses.
C24_Inverses ==
  [][C24_Step]_vars

\* A second composite has been added to a registry whose maps are inverses.
C24_Witness ==
  /\ call.op = "AddMultiPrefix"
  /\ call.err = NoErr
  /\ Cardinality(DOMAIN reg.multi) = 2
  /\ Cardinality(DOMAIN reg.reverse) = 4
  /\ Inverses(reg)

(***************************************************************************)
(* C25. The targets of DeserializeMulti.                                   *)
(***************************************************************************)
\* C25: whenever DeserializeMulti returns an error, of any kind, every target slot
\* still holds the value it had before the call; when it returns no error, every one
\* of the N slots holds its 16-byte chunk of the decoded payload, N being the
\* number of declared components.
C25_AllOrNothing ==
  call.op = "DeserializeMulti" =>
    /\ call.err # NoErr => call.slots = call.targets
    /\ call.err = NoErr =>
         LET payload == DecodeBytes(PayloadPart(call.uuidStr))
         IN  /\ Len(call.slots) = Len(reg.multi[call.want])
             /\ Len(call.slots) = Len(call.targets)
             /\ \A i \in 1..Len(call.slots) :
                  /\ call.slots[i].Entity = call.targets[i].Entity
                  /\ call.slots[i].UUID = SubSeq(payload, (i - 1) * 16 + 1, i * 16)

\* DeserializeMulti has returned no error and a slot holds another value than before.
C25_Witness ==
  /\ call.op = "DeserializeMulti"
  /\ call.err = NoErr
  /\ Len(call.slots) >= 2
  /\ \E i \in 1..Len(call.slots) : call.slots[i].UUID # call.targets[i].UUID

(***************************************************************************)
(* C26. One token for one pair.                                            *)
(***************************************************************************)
\* C26 as stated: for every token t that DeserializeWithEntity accepts with result
\* (e, u), Serialize(e, u) returns exactly t, so that under a given separator two
\* different accepted tokens never decode to the same (entity, UUID).
C26_Canonical_AsClaimed ==
  (call.op = "DeserializeWithEntity" /\ call.err = NoErr) =>
    Serialize(reg, call.entity, call.uuid) = call.uuidStr

(***************************************************************************)
(* C27. Single and composite tokens.                                       *)
(***************************************************************************)
\* What a successful SerializeMulti of the registry returns.
MultiTokensOf(r) ==
  { t \in { SerializeMulti(r, e, ps) : e \in DOMAIN r.multi, ps \in PairListInputs } :
      t.err = NoErr }

\* What Serialize of the registry returns, and what it returned under the other
\* separator.
SingleTokensOf(r) ==
  { Serialize(r, e, u) : e \in EntityInputs, u \in UUIDInputs } \cup EarlierTokens(r)

\* C27: no token returned by a successful SerializeMulti is accepted by Deserialize
\* or DeserializeWithEntity: they fail with ErrInvalidUUIDFormat, the payload being
\* 16*N bytes with N >= 2; and no token returned by Serialize is accepted by
\* DeserializeMulti, whatever the requested entity and the targets.
C27_NeverConfused ==
  /\ (call.op \in {"Deserialize", "DeserializeWithEntity"}
        /\ call.err # ErrInvalidUUIDFormat) =>
       \A t \in MultiTokensOf(reg) : t.out # call.uuidStr
  /\ (call.op = "DeserializeMulti" /\ call.err = NoErr) =>
       call.uuidStr \notin SingleTokensOf(reg)

\* DeserializeMulti, asked for a composite with targets in the declared order, has
\* got the token Serialize returns for that composite.
C27_Witness ==
  /\ call.op = "DeserializeMulti"
  /\ HasKey(reg.multi, call.want)
  /\ EntitiesOf(call.targets) = reg.multi[call.want]
  /\ call.uuidStr = Serialize(reg, call.want, ExampleUUID)
  /\ call.err = ErrInvalidUUIDFormat

====
